---------------------------- MODULE Spec2Model ----------------------------
(***************************************************************************)
(* The deferred-callback registry and drain engine of auxcallback          *)
(* (src/src/lib.rs).                                                       *)
(*                                                                         *)
(* Producers obtain a sender for a named channel and enqueue callbacks;    *)
(* drainer threads run the four drain operations through the host entry    *)
(* point /proc/process_callbacks.  The registry is a DashMap: a sharded    *)
(* map whose shards are guarded by reader/writer locks.  entry() takes the *)
(* shard's write lock for the length of the statement, get() takes its     *)
(* read lock for the length of the statement, and iter() keeps the read    *)
(* lock of the shard it is visiting for as long as it stays in that shard. *)
(* A statement-long lock is never observable between two steps, so only    *)
(* the iterator's guard is state (field held).                             *)
(*                                                                         *)
(* Assumed of the host: /proc/auxtools_stack_trace exists, so the lookup   *)
(* Proc::find(...).unwrap() at the head of each drain succeeds.            *)
(***************************************************************************)
EXTENDS Naturals, Sequences, FiniteSets

\* ------------------------------------------------------------------ bounds
\* Largest capacity of a channel: flume::bounded(100000), scaled down.
Capacity == 2
\* Total number of callbacks enqueued in a run.
MaxEnq == 2
\* Largest time budget (in clock ticks) a drain is called with.
MaxBudget == 1
\* A drain's elapsed time is counted up to MaxClock ticks: one more than any
\* budget, which is as far as a comparison with a budget can tell.
MaxClock == MaxBudget + 1
\* Number of channel generations an id can go through (the code never
\* replaces a channel, so only generation 1 is ever used).
MaxGen == 2

\* ------------------------------------------------------------------- sets
Ids == {"x", "y"}
NoId == "-"
Shards == {1, 2}
Drainers == {"host", "aux"}

\* What a callback does when invoked: it returns "ok", or "err" (a failure
\* whose message the host can hold), or "nul" (a failure whose message
\* Value::from_string rejects: an interior NUL byte), or "ins": it calls
\* callback_sender_by_id_insert for the id of its own channel and returns Ok.
CallbackKinds == {"ok", "err", "nul", "ins"}

NoCallback == [seq |-> 0, kind |-> "ok"]

\* The runtime error of the hook for a wrong number of arguments.
UsageError == "Invalid number of arguments for callback processing; must be 0, 1 or 2"

\* Host values handed to /proc/process_callbacks.
Str(i) == [t |-> "str", s |-> i, n |-> 0]
Num(b) == [t |-> "num", s |-> NoId, n |-> b]
Null == [t |-> "null", s |-> NoId, n |-> 0]

HostArgs ==
    {<<>>, <<Null>>, <<Null, Null>>, <<Null, Null, Null>>, <<Str("x"), Num(0), Null>>}
        \cup { <<Str(i)>> : i \in Ids }
        \cup { <<Str(i), Num(b)>> : i \in Ids, b \in 0..MaxBudget }
        \cup { <<Null, Num(b)>> : b \in 0..MaxBudget }

VARIABLES
    registry,   \* CALLBACK_CHANNELS: id -> generation of its channel, 0 = no entry
    queue,      \* queue[id][g]: the callbacks queued on channel g of id
    shardOf,    \* the DashMap shard each id hashes to (fixed in a run)
    capacity,   \* the capacity every channel is created with (fixed in a run)
    nextSeq,    \* number of callbacks enqueued so far + 1
    senders,    \* senders[id]: the channels of the senders producers hold for id
    dr,         \* drainers' state
    done        \* history: done[id] = the callbacks of id invoked so far, in order

vars == <<registry, queue, shardOf, capacity, nextSeq, senders, dr, done>>

\* ---------------------------------------------------------------- helpers
SeqsOf(q) == { q[i].seq : i \in 1..Len(q) }

\* A drainer at rest.  Of a call it keeps, as history: count, the number of
\* callbacks invoked; failed, the callbacks that returned a failure; sink,
\* the messages passed to /proc/auxtools_stack_trace (a callback's message
\* is named by its seq); snap, exceeded, disturbed.
DrainerIdle ==
    [pc |-> "idle", op |-> "none", cid |-> NoId, gen |-> 0, budget |-> 0,
     elapsed |-> 0, cb |-> NoCallback, held |-> 0, seen |-> {}, count |-> 0,
     failed |-> <<>>, sink |-> <<>>,
     snap |-> {}, exceeded |-> FALSE, disturbed |-> FALSE, ret |-> "none"]

\* The threads holding the read lock of shard s (a full-registry iteration
\* is inside s).
ReadHolders(s) == { t \in Drainers : dr[t].held = s }

\* Mutant of CanWrite: entry() does not wait for the iteration's guard.
CanWriteAlways(id) == id \in Ids

\* entry() can take the write lock of id's shard.
CanWrite(id) == ReadHolders(shardOf[id]) = {}

\* Mutant of OrInsert: insert() in place of or_insert(), a new channel
\* replaces the entry's.
OrInsertAlways(reg, id) == [reg EXCEPT ![id] = @ + 1]

\* entry(id).or_insert(flume::bounded(100000)): keeps an existing channel.
OrInsert(reg, id) == IF reg[id] = 0 THEN [reg EXCEPT ![id] = 1] ELSE reg

\* Mutant of Exceeds: >= in place of >.
ExceedsOrEqual(elapsed, budget) == elapsed >= budget

\* Duration comparison of the time checks: now.elapsed() > duration.
Exceeds(elapsed, budget) == elapsed > budget

\* Mutant of RecvFront: the newest callback is taken.
RecvLast(q) == q[Len(q)]

\* Receiver::try_recv / recv on a non-empty queue: the oldest callback.
RecvFront(q) == Head(q)

\* Mutant of RecvRest: the callback received stays in the queue.
RecvRestKeeping(q) == q

\* The queue after the oldest callback was taken.
RecvRest(q) == Tail(q)

\* Sender::send: the callback goes to the back of the queue.
Enqueue(q, c) == Append(q, c)

\* The callbacks queued on every channel of the registry.
AllQueued ==
    UNION { SeqsOf(queue[i][registry[i]]) : i \in { j \in Ids : registry[j] > 0 } }

\* -------------------------------------------------------------------- Init
InitShared ==
    /\ registry = [i \in Ids |-> 0]
    /\ queue = [i \in Ids |-> [g \in 1..MaxGen |-> <<>>]]
    /\ shardOf \in { f \in [Ids -> Shards] : f["x"] = 1 }
    /\ capacity \in 1..Capacity
    /\ nextSeq = 1
    /\ senders = [i \in Ids |-> {}]
    /\ done = [i \in Ids |-> <<>>]

\* One drainer: the host's designated thread.
Init ==
    /\ InitShared
    /\ dr = [t \in Drainers |->
                IF t = "host" THEN DrainerIdle ELSE [DrainerIdle EXCEPT !.pc = "off"]]

\* Two drainers: nothing in the code stops a second thread from draining.
\* (Runs about one channel: the shards and the smaller capacity do not vary.)
InitConc ==
    /\ InitShared
    /\ shardOf = [i \in Ids |-> 1]
    /\ capacity = Capacity
    /\ dr = [t \in Drainers |-> DrainerIdle]

\* --------------------------------------------------------------- producers
\* The registry functions are called by any number of producer threads; what
\* a producer keeps of a call is the handle it returned.

\* callback_sender_by_id_insert(id): the sender of id's channel, which is
\* created when id has no entry.  Waits for the shard's write lock.
SenderInsert(id) ==
    /\ CanWrite(id)
    /\ registry' = OrInsert(registry, id)
    /\ senders' = [senders EXCEPT ![id] = @ \cup {registry'[id]}]
    /\ UNCHANGED <<queue, shardOf, capacity, nextSeq, dr, done>>

\* callback_receiver_by_id_insert(id) called outside the drains (the drains'
\* own calls are GetReceiver): the entry is created when id has none; the
\* receiver returned is the caller's to drop.
ReceiverInsert(id) ==
    /\ CanWrite(id)
    /\ registry' = OrInsert(registry, id)
    /\ UNCHANGED <<queue, shardOf, capacity, nextSeq, senders, dr, done>>

\* CALLBACK_CHANNELS.get(&id): the generation of id's channel, 0 for None.
Get(reg, id) == reg[id]

\* Mutant of SenderById: the getter creates the entry, as the get-or-create.
SenderByIdCreating(id) ==
    /\ CanWrite(id)
    /\ registry' = OrInsert(registry, id)
    /\ senders' = [senders EXCEPT ![id] = @ \cup {registry'[id]}]
    /\ UNCHANGED <<queue, shardOf, capacity, nextSeq, dr, done>>

\* callback_sender_by_id(id): Some(sender) or None; creates nothing.
SenderById(id) ==
    /\ LET g == Get(registry, id) IN
        senders' = IF g = 0 THEN senders ELSE [senders EXCEPT ![id] = @ \cup {g}]
    /\ UNCHANGED <<registry, queue, shardOf, capacity, nextSeq, dr, done>>

\* callback_receiver_by_id(id) called outside the drains: Some(receiver) or
\* None; creates nothing, and the receiver returned is the caller's to drop.
ReceiverById(id) ==
    /\ Get(registry, id) \in 0..MaxGen
    /\ UNCHANGED vars

\* A drain call in progress that an enqueue on id runs concurrently with.
Concerns(d, id) ==
    /\ d.pc \notin {"off", "idle", "ret"}
    /\ d.op \in {"all", "all_for"} \/ d.cid = id

\* Mutant of Send: the channel is unbounded, send never waits.
SendUnbounded(id, g, k) ==
    /\ g \in senders[id]
    /\ nextSeq <= MaxEnq
    /\ queue' = [queue EXCEPT ![id][g] = Enqueue(@, [seq |-> nextSeq, kind |-> k])]
    /\ dr' = [t \in Drainers |->
                IF Concerns(dr[t], id) THEN [dr[t] EXCEPT !.disturbed = TRUE] ELSE dr[t]]
    /\ nextSeq' = nextSeq + 1
    /\ UNCHANGED <<registry, shardOf, capacity, senders, done>>

\* sender.send(callback) through a sender of channel g of id that a producer
\* holds: waits while the channel is full.
Send(id, g, k) ==
    /\ g \in senders[id]
    /\ nextSeq <= MaxEnq
    /\ Len(queue[id][g]) < capacity
    /\ queue' = [queue EXCEPT ![id][g] = Enqueue(@, [seq |-> nextSeq, kind |-> k])]
    /\ dr' = [t \in Drainers |->
                IF Concerns(dr[t], id) THEN [dr[t] EXCEPT !.disturbed = TRUE] ELSE dr[t]]
    /\ nextSeq' = nextSeq + 1
    /\ UNCHANGED <<registry, shardOf, capacity, senders, done>>

\* ------------------------------------------------------------ drain engine
Timed(op) == op \in {"one_for", "all_for"}

\* Mutant of Dispatch: arguments after the second are ignored.
DispatchIgnoringExtra(args) ==
    CASE Len(args) = 0 -> [op |-> "all", id |-> NoId, budget |-> 0]
      [] Len(args) = 1 ->
            IF args[1].t = "str"
            THEN [op |-> "one", id |-> args[1].s, budget |-> 0]
            ELSE [op |-> "err", id |-> NoId, budget |-> 0]
      [] OTHER ->
            IF args[2].t # "num"
            THEN [op |-> "err", id |-> NoId, budget |-> 0]
            ELSE IF args[1].t = "str"
            THEN [op |-> "one_for", id |-> args[1].s, budget |-> args[2].n]
            ELSE [op |-> "all_for", id |-> NoId, budget |-> args[2].n]

\* Mutant of Dispatch: with two arguments and no id, the blocking drain runs.
DispatchNullBlocking(args) ==
    CASE Len(args) = 0 -> [op |-> "all", id |-> NoId, budget |-> 0]
      [] Len(args) = 1 ->
            IF args[1].t = "str"
            THEN [op |-> "one", id |-> args[1].s, budget |-> 0]
            ELSE [op |-> "err", id |-> NoId, budget |-> 0]
      [] Len(args) = 2 ->
            IF args[2].t # "num"
            THEN [op |-> "err", id |-> NoId, budget |-> 0]
            ELSE IF args[1].t = "str"
            THEN [op |-> "one_for", id |-> args[1].s, budget |-> args[2].n]
            ELSE [op |-> "all", id |-> NoId, budget |-> 0]
      [] OTHER -> [op |-> "usage", id |-> NoId, budget |-> 0]

\* The hook /proc/process_callbacks: the drain chosen from the arguments.
\* "err" stands for the runtime error of a failed as_string()/as_number().
Dispatch(args) ==
    CASE Len(args) = 0 -> [op |-> "all", id |-> NoId, budget |-> 0]
      [] Len(args) = 1 ->
            IF args[1].t = "str"
            THEN [op |-> "one", id |-> args[1].s, budget |-> 0]
            ELSE [op |-> "err", id |-> NoId, budget |-> 0]
      [] Len(args) = 2 ->
            IF args[2].t # "num"
            THEN [op |-> "err", id |-> NoId, budget |-> 0]
            ELSE IF args[1].t = "str"
            THEN [op |-> "one_for", id |-> args[1].s, budget |-> args[2].n]
            ELSE [op |-> "all_for", id |-> NoId, budget |-> args[2].n]
      [] OTHER -> [op |-> "usage", id |-> NoId, budget |-> 0]

\* The callbacks queued at call time on the channels the drain is about.
Snapshot(c) ==
    IF c.op \in {"all", "all_for"} THEN AllQueued
    ELSE IF c.id \in Ids /\ registry[c.id] > 0 THEN SeqsOf(queue[c.id][registry[c.id]])
    ELSE {}

\* The host (or another thread) calls the hook with args.
Call(t, args) ==
    /\ dr[t].pc = "idle"
    /\ LET c == Dispatch(args) IN
        dr' = [dr EXCEPT ![t] =
            IF c.op \in {"err", "usage"}
            THEN [DrainerIdle EXCEPT !.pc = "ret", !.op = c.op,
                    !.ret = IF c.op = "usage" THEN UsageError ELSE "err"]
            ELSE [DrainerIdle EXCEPT
                    !.pc = IF c.op \in {"one", "one_for"} THEN "insert" ELSE "iter",
                    !.op = c.op, !.cid = c.id, !.budget = c.budget,
                    !.snap = Snapshot(c)]]
    /\ UNCHANGED <<registry, queue, shardOf, capacity, nextSeq, senders, done>>

\* process_callbacks / process_callbacks_for: callback_receiver_by_id_insert(id),
\* then (process_callbacks_for) Instant::now(), from which elapsed counts.
\* process_all_callbacks_for reads Instant::now() first, in Call.
GetReceiver(t) ==
    /\ dr[t].pc = "insert"
    /\ CanWrite(dr[t].cid)
    /\ registry' = OrInsert(registry, dr[t].cid)
    /\ dr' = [dr EXCEPT ![t] = [@ EXCEPT !.pc = "loop", !.gen = registry'[dr[t].cid],
                                         !.elapsed = 0]]
    /\ UNCHANGED <<queue, shardOf, capacity, nextSeq, senders, done>>

\* The entries of shard s the iteration has not yielded yet.
Unvisited(d, s) == { i \in Ids : registry[i] > 0 /\ shardOf[i] = s /\ i \notin d.seen }

\* The shards after s that hold an entry.
LaterShards(s) == { s2 \in Shards : s2 > s /\ \E i \in Ids : registry[i] > 0 /\ shardOf[i] = s2 }

\* The shard the iteration is in after its next step.
NextShard(d) ==
    IF d.held # 0 /\ Unvisited(d, d.held) # {} THEN d.held
    ELSE IF LaterShards(d.held) # {}
    THEN CHOOSE s \in LaterShards(d.held) : \A s2 \in LaterShards(d.held) : s <= s2
    ELSE 0

\* Mutant of IterNext: the iteration yields the entries without keeping the
\* guard of their shard.
IterNextUnguarded(t) ==
    /\ dr[t].pc = "iter"
    /\ LET d == dr[t]
           r == { i \in Ids : registry[i] > 0 /\ i \notin d.seen }
       IN  IF r = {}
           THEN dr' = [dr EXCEPT ![t] =
                    IF d.op = "all_for"
                    THEN [d EXCEPT !.pc = "end", !.cid = NoId, !.gen = 0]
                    ELSE [d EXCEPT !.pc = "ret", !.ret = "unit", !.cid = NoId, !.gen = 0]]
           ELSE \E i \in r :
                    dr' = [dr EXCEPT ![t] =
                        [d EXCEPT !.pc = "loop", !.cid = i,
                                  !.gen = registry[i], !.seen = @ \cup {i}]]
    /\ UNCHANGED <<registry, queue, shardOf, capacity, nextSeq, senders, done>>

\* CALLBACK_CHANNELS.iter().next() of the two full-registry drains: the next
\* entry of the shard being visited, or the first of the next shard that has
\* one (the guard moves to that shard), or the end (the guard is dropped).
\* The order of the entries inside a shard is not specified.
IterNext(t) ==
    /\ dr[t].pc = "iter"
    /\ LET d == dr[t]
           s == NextShard(d)
       IN  IF s = 0
           THEN dr' = [dr EXCEPT ![t] =
                    IF d.op = "all_for"
                    THEN [d EXCEPT !.pc = "end", !.held = 0, !.cid = NoId, !.gen = 0]
                    ELSE [d EXCEPT !.pc = "ret", !.ret = "unit", !.held = 0,
                                   !.cid = NoId, !.gen = 0]]
           ELSE \E i \in Unvisited(d, s) :
                    dr' = [dr EXCEPT ![t] =
                        [d EXCEPT !.pc = "loop", !.held = s, !.cid = i,
                                  !.gen = registry[i], !.seen = @ \cup {i}]]
    /\ UNCHANGED <<registry, queue, shardOf, capacity, nextSeq, senders, done>>

\* Mutant of Blocking: process_callbacks iterates the receiver itself too.
BlockingOne(op) == op \in {"all", "one"}

\* process_all_callbacks iterates the receiver itself (blocking recv, which
\* ends only when every sender is gone, and the registry keeps one); the
\* other three use try_iter().
Blocking(op) == op = "all"

\* The drain's state when its receiver finds the queue empty.
OnEmpty(d) ==
    CASE d.op = "all_for" -> [d EXCEPT !.pc = "iter"]
      [] d.op = "one_for" -> [d EXCEPT !.pc = "end"]
      [] OTHER -> [d EXCEPT !.pc = "ret", !.ret = "unit"]

\* Mutant of Recv: the callback is taken from any channel of the registry.
RecvAny(t) ==
    /\ dr[t].pc = "loop"
    /\ \E i \in Ids :
        /\ registry[i] > 0
        /\ queue[i][registry[i]] # <<>>
        /\ queue' = [queue EXCEPT ![i][registry[i]] = RecvRest(@)]
        /\ dr' = [dr EXCEPT ![t] = [@ EXCEPT !.pc = "got",
                                             !.cb = RecvFront(queue[i][registry[i]])]]
    /\ UNCHANGED <<registry, shardOf, capacity, nextSeq, senders, done>>

\* The next callback of the receiver's queue, if any.
Recv(t) ==
    /\ dr[t].pc = "loop"
    /\ LET d == dr[t]
           q == queue[d.cid][d.gen]
       IN  IF q # <<>>
           THEN /\ queue' = [queue EXCEPT ![d.cid][d.gen] = RecvRest(q)]
                /\ dr' = [dr EXCEPT ![t] = [d EXCEPT !.pc = "got", !.cb = RecvFront(q)]]
           ELSE /\ ~Blocking(d.op)
                /\ queue' = queue
                /\ dr' = [dr EXCEPT ![t] = OnEmpty(d)]
    /\ UNCHANGED <<registry, shardOf, capacity, nextSeq, senders, done>>

\* Mutant of AfterCallback: `break` in place of `break 'outer`, the
\* full-registry drain goes on with the next channel.
AfterCallbackBreakInner(d, res) ==
    IF res = "nul"
    THEN [d EXCEPT !.pc = "ret", !.ret = "err", !.held = 0, !.cb = NoCallback]
    ELSE IF Timed(d.op) /\ Exceeds(d.elapsed, d.budget)
    THEN IF d.op = "all_for"
         THEN [d EXCEPT !.pc = "iter", !.exceeded = TRUE, !.cb = NoCallback]
         ELSE [d EXCEPT !.pc = "end", !.exceeded = TRUE, !.held = 0, !.cb = NoCallback]
    ELSE [d EXCEPT !.pc = "loop", !.cb = NoCallback]

\* After callback() returned res: a failure is reported with
\* stack_trace.call(&[&Value::from_string(msg)?]), whose own result is
\* dropped, but a from_string failure ("nul") leaves the drain through `?`;
\* then the timed drains compare now.elapsed() with the budget and break.
AfterCallback(d, res) ==
    IF res = "nul"
    THEN [d EXCEPT !.pc = "ret", !.ret = "err", !.held = 0, !.cb = NoCallback]
    ELSE IF Timed(d.op) /\ Exceeds(d.elapsed, d.budget)
    THEN [d EXCEPT !.pc = "end", !.exceeded = TRUE, !.held = 0, !.cb = NoCallback]
    ELSE [d EXCEPT !.pc = "loop", !.cb = NoCallback]

\* What stack_trace.call(..) returns to the drain.
SinkResults == {"ok", "fail"}

\* callback() returned Err(e).
Failure(res) == res \in {"err", "nul"}

\* callback() has returned res: the call's history of invocations.
Ran(d, res) ==
    [d EXCEPT !.count = @ + 1,
              !.failed = IF Failure(res) THEN Append(@, d.cb.seq) ELSE @]

\* let _ = stack_trace.call(&[&message]): the sink is called with the
\* message, and what the call returns (r) is dropped.
Report(d, r) == [d EXCEPT !.sink = Append(@, d.cb.seq)]

\* callback(): the dequeued callback runs on the drainer's thread; a failure
\* whose message Value::from_string accepts is reported.
Invoke(t) ==
    /\ dr[t].pc = "got"
    /\ done' = [done EXCEPT ![dr[t].cid] = Append(@, dr[t].cb.seq)]
    /\ LET d == Ran(dr[t], dr[t].cb.kind) IN
        \E r \in SinkResults :
            dr' = [dr EXCEPT ![t] =
                CASE d.cb.kind = "ins" -> [d EXCEPT !.pc = "incb"]
                  [] d.cb.kind = "err" -> AfterCallback(Report(d, r), "err")
                  [] OTHER -> AfterCallback(d, d.cb.kind)]
    /\ UNCHANGED <<registry, queue, shardOf, capacity, nextSeq, senders>>

\* The running callback calls callback_sender_by_id_insert(id of its channel)
\* and returns Ok.
CallbackInsert(t) ==
    /\ dr[t].pc = "incb"
    /\ CanWrite(dr[t].cid)
    /\ registry' = OrInsert(registry, dr[t].cid)
    /\ senders' = [senders EXCEPT ![dr[t].cid] = @ \cup {registry'[dr[t].cid]}]
    /\ dr' = [dr EXCEPT ![t] = AfterCallback(dr[t], "ok")]
    /\ UNCHANGED <<queue, shardOf, capacity, nextSeq, done>>

\* Ok(now.elapsed() > duration), the result of the timed drains.
ReturnBool(t) ==
    /\ dr[t].pc = "end"
    /\ dr' = [dr EXCEPT ![t] = [@ EXCEPT !.pc = "ret",
                !.ret = IF Exceeds(dr[t].elapsed, dr[t].budget)
                        THEN "true" ELSE "false"]]
    /\ UNCHANGED <<registry, queue, shardOf, capacity, nextSeq, senders, done>>

\* Mutant of Return: a drain removes the entry of the channel it leaves.
ReturnDropping(t) ==
    /\ dr[t].pc = "ret"
    /\ dr' = [dr EXCEPT ![t] = DrainerIdle]
    /\ registry' = [i \in Ids |-> IF i = dr[t].cid THEN 0 ELSE registry[i]]
    /\ UNCHANGED <<queue, shardOf, capacity, nextSeq, senders, done>>

\* The hook returns to its caller.
Return(t) ==
    /\ dr[t].pc = "ret"
    /\ dr' = [dr EXCEPT ![t] = DrainerIdle]
    /\ UNCHANGED <<registry, queue, shardOf, capacity, nextSeq, senders, done>>

\* A drain that has read Instant::now() and whose next step reads
\* now.elapsed(): after the callback in hand, or for the result.
Measuring(d) ==
    /\ Timed(d.op)
    /\ \/ d.pc = "got" /\ d.cb.kind # "ins"
       \/ d.pc \in {"incb", "end"}

\* Time passes: one tick of the clock, seen by every drain about to read its
\* elapsed time (elapsed = the clock now - the clock at Instant::now()).  The
\* time that passes while no drain is about to read is seen by the next
\* reading all the same, as ticks taken just before it.
Tick ==
    /\ \E t \in Drainers : Measuring(dr[t]) /\ dr[t].elapsed < MaxClock
    /\ dr' = [t \in Drainers |->
                IF Measuring(dr[t]) /\ dr[t].elapsed < MaxClock
                THEN [dr[t] EXCEPT !.elapsed = @ + 1] ELSE dr[t]]
    /\ UNCHANGED <<registry, queue, shardOf, capacity, nextSeq, senders, done>>

\* One step of drainer t inside a call.
DrainStep(t) ==
    \/ GetReceiver(t)
    \/ IterNext(t)
    \/ Recv(t)
    \/ Invoke(t)
    \/ CallbackInsert(t)
    \/ ReturnBool(t)
    \/ Return(t)

Next ==
    \/ \E i \in Ids : SenderInsert(i)
    \/ \E i \in Ids : ReceiverInsert(i)
    \/ \E i \in Ids : SenderById(i)
    \/ \E i \in Ids : ReceiverById(i)
    \/ \E i \in Ids, g \in 1..MaxGen, k \in CallbackKinds : Send(i, g, k)
    \/ \E t \in Drainers, a \in HostArgs : Call(t, a)
    \/ \E t \in Drainers : GetReceiver(t)
    \/ \E t \in Drainers : IterNext(t)
    \/ \E t \in Drainers : Recv(t)
    \/ \E t \in Drainers : Invoke(t)
    \/ \E t \in Drainers : CallbackInsert(t)
    \/ \E t \in Drainers : ReturnBool(t)
    \/ \E t \in Drainers : Return(t)
    \/ Tick

Spec == Init /\ [][Next]_vars

\* The calls of the hook that drain the channel of x.
ConcArgs == {<<Str("x")>>, <<Str("x"), Num(0)>>, <<Null, Num(0)>>}

\* Two threads drain the channel of x while producers enqueue on it.
NextConc ==
    \/ SenderInsert("x")
    \/ \E k \in CallbackKinds : Send("x", 1, k)
    \/ \E t \in Drainers, a \in ConcArgs : Call(t, a)
    \/ \E t \in Drainers : GetReceiver(t)
    \/ \E t \in Drainers : IterNext(t)
    \/ \E t \in Drainers : Recv(t)
    \/ \E t \in Drainers : Invoke(t)
    \/ \E t \in Drainers : CallbackInsert(t)
    \/ \E t \in Drainers : ReturnBool(t)
    \/ \E t \in Drainers : Return(t)
    \/ Tick

SpecConc == InitConc /\ [][NextConc]_vars

\* ------------------------------------------------------------------ claims
Increasing(q) == \A i, j \in 1..Len(q) : i < j => q[i] < q[j]

\* The callbacks queued at call time that are still queued.
Pending(d) == d.snap \cap AllQueued

Returned(d) == d.pc = "ret"

\* C1: on every channel the callbacks are invoked in the order they were
\* enqueued (seq is the enqueue order), across successive drain calls: the
\* invoked ones are in increasing order and older than every queued one, and
\* the queue itself is in enqueue order.
C1_Fifo ==
    \A i \in Ids :
        /\ Increasing(done[i])
        /\ \A g \in 1..MaxGen :
            /\ Increasing([k \in 1..Len(queue[i][g]) |-> queue[i][g][k].seq])
            /\ \A a \in 1..Len(done[i]), b \in 1..Len(queue[i][g]) :
                    done[i][a] < queue[i][g][b].seq

\* Two callbacks of one channel invoked by two different drain calls.
C1_Witness ==
    /\ Len(done["x"]) = 2
    /\ dr["host"].pc = "ret"
    /\ dr["host"].count = 1

\* C2: the registry never holds more than one channel for an id, and every
\* handle returned for the id (the producers' senders, the drains'
\* receivers) is a handle of that channel.
C2_OneChannel ==
    /\ \A i \in Ids :
        /\ registry[i] <= 1
        /\ senders[i] \subseteq {registry[i]}
    /\ \A t \in Drainers : dr[t].gen # 0 => dr[t].gen = registry[dr[t].cid]

\* Get-or-create was called for x for a sender and, by a drain, for a
\* receiver, and the drain received a callback sent through the sender.
C2_Witness ==
    /\ senders["x"] = {1}
    /\ dr["host"].cid = "x"
    /\ dr["host"].gen = 1
    /\ dr["host"].pc = "got"

\* C3 (as claimed): a process_callbacks(id) that no enqueue ran concurrently
\* with has invoked exactly the N callbacks queued at call time and left
\* the channel empty.
C3_DrainsAll ==
    \A t \in Drainers :
        (Returned(dr[t]) /\ dr[t].op = "one" /\ ~dr[t].disturbed)
            => /\ dr[t].count = Cardinality(dr[t].snap)
               /\ queue[dr[t].cid][dr[t].gen] = <<>>

\* C4 (as claimed): a process_callbacks_for(id, 0) that returned a boolean
\* invoked at most one callback, and exactly one with the result true when
\* a callback was queued at call time.
C4_ZeroBudget ==
    \A t \in Drainers :
        (Returned(dr[t]) /\ dr[t].op = "one_for" /\ dr[t].budget = 0
            /\ dr[t].ret \in {"true", "false"})
            => /\ dr[t].count <= 1
               /\ dr[t].snap # {} => (dr[t].count = 1 /\ dr[t].ret = "true")

\* C5: once a process_all_callbacks_for call has seen its budget exceeded
\* at a check, it invokes no further callback: until it returns, its count
\* of invocations stays and it only goes on to its return.
C5_StopsOnBudget ==
    [][\A t \in Drainers :
        (dr[t].op = "all_for" /\ dr[t].exceeded)
            => \/ dr'[t].pc = "idle"
               \/ /\ dr'[t].count = dr[t].count
                  /\ dr'[t].pc \in {"end", "ret"}
                  /\ done' = done]_vars

\* The budget was exceeded while a channel not yet visited holds callbacks.
C5_Witness ==
    /\ dr["host"].op = "all_for"
    /\ dr["host"].exceeded
    /\ dr["host"].pc = "ret"
    /\ \E i \in Ids : i \notin dr["host"].seen /\ registry[i] > 0 /\ queue[i][1] # <<>>

\* C6 (as claimed): a drain that returned without having been stopped by
\* its time budget has invoked every callback that was queued at call time,
\* whatever the callbacks returned and however the reports went.
C6_FailureNeverAborts ==
    \A t \in Drainers :
        (Returned(dr[t]) /\ dr[t].op \in {"all", "all_for", "one", "one_for"}
            /\ ~dr[t].exceeded)
            => Pending(dr[t]) = {}

\* C7 (as claimed): the boolean of a bounded drain is true only if callbacks
\* queued at call time remained un-invoked, and false whenever all of them
\* were invoked.
C7_ExhaustedBeforeDrained ==
    \A t \in Drainers :
        (Returned(dr[t]) /\ dr[t].ret \in {"true", "false"})
            => /\ dr[t].ret = "true" => Pending(dr[t]) # {}
               /\ Pending(dr[t]) = {} => dr[t].ret = "false"

\* C7 (amended): the boolean tells whether the elapsed time read when the
\* call returns exceeds the budget; it is false only if every callback
\* queued at call time was invoked, and true whenever the loop stopped on
\* the budget.
C7_ElapsedAtReturn ==
    \A t \in Drainers :
        (Returned(dr[t]) /\ dr[t].ret \in {"true", "false"})
            => /\ dr[t].ret = "true" <=> dr[t].elapsed > dr[t].budget
               /\ dr[t].ret = "false" => Pending(dr[t]) = {}
               /\ dr[t].exceeded => dr[t].ret = "true"

\* A bounded drain returned true although it invoked everything queued.
C7_Witness ==
    /\ dr["host"].pc = "ret"
    /\ dr["host"].ret = "true"
    /\ dr["host"].snap # {}
    /\ Pending(dr["host"]) = {}

\* A call of one of the three non-blocking drains that has not returned yet.
InBounded(d) ==
    /\ d.op \in {"all_for", "one", "one_for"}
    /\ d.pc \in {"insert", "iter", "loop", "got", "incb", "end"}

\* The drain is about to take the write lock of a shard (get-or-create) that
\* a full-registry iteration holds for reading.
AwaitsShard(d) == d.pc \in {"insert", "incb"} /\ ~CanWrite(d.cid)

\* C8 (as claimed): a call of process_all_callbacks_for, process_callbacks_for
\* or process_callbacks is never suspended: it can always take its next step.
C8_NeverSuspended ==
    \A t \in Drainers : InBounded(dr[t]) => ENABLED DrainStep(t)

\* C8 (amended): such a call can always take its next step, except while it
\* waits for the write lock of a registry shard that a full-registry
\* iteration holds.
C8_SuspendedOnlyOnShard ==
    \A t \in Drainers : InBounded(dr[t]) => (ENABLED DrainStep(t) \/ AwaitsShard(dr[t]))

\* process_all_callbacks_for runs a callback that calls get-or-create for the
\* channel being visited: it waits for the guard of its own iteration.
C8_Witness ==
    /\ dr["host"].op = "all_for"
    /\ dr["host"].pc = "incb"
    /\ dr["host"].held = shardOf[dr["host"].cid]

\* C9 (as claimed): every callback queued on a channel of the registry when
\* process_all_callbacks() is called is eventually invoked by the call (the
\* calls that leave on a failed report or are inside a callback set aside).
C9_AllEventuallyInvoked ==
    \A n \in 1..MaxEnq :
        (\E t \in Drainers : dr[t].op = "all" /\ n \in dr[t].snap)
            ~> \/ \E i \in Ids : \E k \in 1..Len(done[i]) : done[i][k] = n
               \/ \E t \in Drainers : dr[t].op = "all" /\ dr[t].pc \in {"ret", "incb"}

\* C10: callback_sender_by_id(id) and callback_receiver_by_id(id) change
\* neither the registry nor any queue; for an id without an entry they hand
\* out nothing, for an id with an entry a handle of that entry's channel.
C10_GetIsPure ==
    [][\A i \in Ids :
        /\ SenderById(i) =>
            /\ registry' = registry /\ queue' = queue
            /\ senders' = IF registry[i] = 0 THEN senders
                          ELSE [senders EXCEPT ![i] = @ \cup {registry[i]}]
        /\ ReceiverById(i) => (registry' = registry /\ queue' = queue)]_vars

\* x has an entry and no sender was handed out for it yet, y has none: the
\* getter for x hands out a sender of x's channel, the getter for y nothing.
C10_Witness ==
    /\ registry["x"] = 1
    /\ registry["y"] = 0
    /\ senders["x"] = {}
    /\ ENABLED (SenderById("x") /\ senders'["x"] = {1})
    /\ ENABLED (SenderById("y") /\ senders' = senders)

\* C11: the registry never shrinks and never rebinds an id: an id that has
\* an entry keeps it, with the same channel, over every step of every
\* operation.
C11_NeverShrinks ==
    [][\A i \in Ids : registry[i] # 0 => registry'[i] = registry[i]]_vars

\* Both ids have an entry, a sender was handed out, and a full-registry
\* drain has invoked a callback and is returning.
C11_Witness ==
    /\ registry["x"] = 1
    /\ registry["y"] = 1
    /\ senders["x"] = {1}
    /\ dr["host"].op = "all_for"
    /\ dr["host"].pc = "ret"
    /\ dr["host"].count >= 1

\* C12: a call of the hook with more than two arguments fails with the
\* usage error; the call invokes no callback and changes neither the
\* registry nor any queue, and all it does next is return.
C12_UsageError ==
    [][\A t \in Drainers :
        /\ \A a \in HostArgs :
            (Len(a) > 2 /\ Call(t, a))
                => /\ dr'[t].pc = "ret"
                   /\ dr'[t].ret = UsageError
                   /\ dr'[t].count = 0
                   /\ registry' = registry /\ queue' = queue /\ done' = done
        /\ (dr[t].ret = UsageError /\ dr'[t] # dr[t])
                => /\ dr'[t] = DrainerIdle
                   /\ registry' = registry /\ queue' = queue /\ done' = done]_vars

\* The hook failed with the usage error while a callback was queued.
C12_Witness ==
    /\ dr["host"].pc = "ret"
    /\ dr["host"].ret = UsageError
    /\ registry["x"] = 1
    /\ queue["x"][1] # <<>>

\* The result a drain call has when it returns, by the drain it runs.
ResultsOf(op) ==
    CASE op \in {"all", "one"} -> {"unit", "err"}
      [] op \in {"all_for", "one_for"} -> {"true", "false", "err"}
      [] OTHER -> {"err", UsageError}

\* C13: the hook runs process_all_callbacks for no argument,
\* process_callbacks(id) for one id, process_callbacks_for(id, budget) for an
\* id and a budget, process_all_callbacks_for(budget) for a budget whose
\* first argument is no string; only the last two return a boolean.
C13_DispatchByShape ==
    /\ [][\A t \in Drainers, a \in HostArgs :
            Call(t, a) =>
                /\ Len(a) = 0 => dr'[t].op = "all"
                /\ (Len(a) = 1 /\ a[1].t = "str")
                        => (dr'[t].op = "one" /\ dr'[t].cid = a[1].s)
                /\ (Len(a) = 2 /\ a[1].t = "str" /\ a[2].t = "num")
                        => /\ dr'[t].op = "one_for"
                           /\ dr'[t].cid = a[1].s
                           /\ dr'[t].budget = a[2].n
                /\ (Len(a) = 2 /\ a[1].t # "str" /\ a[2].t = "num")
                        => (dr'[t].op = "all_for" /\ dr'[t].budget = a[2].n)]_vars
    /\ [](\A t \in Drainers : Returned(dr[t]) => dr[t].ret \in ResultsOf(dr[t].op))

\* The hook was called with no id and a budget, drained every channel and
\* returns a boolean.
C13_Witness ==
    /\ dr["host"].op = "all_for"
    /\ dr["host"].pc = "ret"
    /\ dr["host"].ret \in {"true", "false"}
    /\ dr["host"].seen = Ids
    /\ dr["host"].count >= 1

\* C14: no channel ever holds more callbacks than its capacity, and a
\* producer holding a sender (with a callback left to send) can enqueue
\* exactly when the channel is not full: it waits while the channel is full
\* and no longer once a callback has been removed.
C14_Bounded ==
    \A i \in Ids, g \in 1..MaxGen :
        /\ Len(queue[i][g]) <= capacity
        /\ (g \in senders[i] /\ nextSeq <= MaxEnq)
            => ((ENABLED Send(i, g, "ok")) <=> Len(queue[i][g]) < capacity)

\* A producer with a callback to send waits on the full channel x while a
\* drain of x is about to remove a callback.
C14_Witness ==
    /\ Len(queue["x"][1]) = capacity
    /\ 1 \in senders["x"]
    /\ nextSeq <= MaxEnq
    /\ ~ENABLED Send("x", 1, "ok")
    /\ dr["host"].pc = "loop"
    /\ dr["host"].cid = "x"

\* C15 (as claimed): the messages a drain call has passed to the sink are
\* the messages of the failures its callbacks returned, each once and in
\* the order of the failures.
C15_EveryFailureReported ==
    \A t \in Drainers : dr[t].sink = dr[t].failed

\* C16: every step of a process_callbacks(id) or process_callbacks_for(id, ..)
\* call leaves the queue, the entry and the invocation history of every
\* other id as they are; on id it only removes callbacks from the queue, and
\* the only change of the registry is a new, empty channel for id when id
\* had no entry.
C16_OnlyNamedChannel ==
    [][\A t \in Drainers :
        (dr[t].op \in {"one", "one_for"} /\ DrainStep(t))
            => LET id == dr[t].cid IN
               /\ \A i \in Ids \ {id} :
                    /\ queue'[i] = queue[i]
                    /\ registry'[i] = registry[i]
                    /\ done'[i] = done[i]
               /\ \A g \in 1..MaxGen : Len(queue'[id][g]) <= Len(queue[id][g])
               /\ registry'[id] # registry[id]
                    => (registry[id] = 0 /\ queue'[id][registry'[id]] = <<>>)]_vars

\* process_callbacks_for("y", ..) has invoked a callback of y and returns
\* while callbacks are queued on x.
C16_Witness ==
    /\ dr["host"].op = "one_for"
    /\ dr["host"].cid = "y"
    /\ dr["host"].pc = "ret"
    /\ dr["host"].count >= 1
    /\ queue["x"][1] # <<>>

\* C17 (as claimed): a process_all_callbacks() call that found a channel in
\* the registry never returns.
C17_NeverReturns ==
    \A t \in Drainers :
        (dr[t].op = "all" /\ dr[t].seen # {}) => ~Returned(dr[t])

\* A full-registry drain is visiting the entry of id i.
Visiting(d, i) ==
    /\ d.op \in {"all", "all_for"}
    /\ d.pc \in {"loop", "got", "incb"}
    /\ d.cid = i
    /\ d.held = shardOf[i]

\* process_all_callbacks waits on the empty channel of i, which it is
\* visiting, and no producer holds a sender of i.
Deadlocked(d, i) ==
    /\ Visiting(d, i)
    /\ d.op = "all"
    /\ d.pc = "loop"
    /\ queue[i][d.gen] = <<>>
    /\ senders[i] = {}

\* C18: while a full-registry drain visits the entry of an id, a get-or-create
\* call for that id by another thread waits; when the drain is
\* process_all_callbacks waiting on the empty channel and no producer holds a
\* sender of it, neither the drain nor an enqueue can take a step, and this
\* lasts for as long as no sender is obtained through the plain getter.
C18_InsertDeadlock ==
    /\ [](\A t \in Drainers, i \in Ids :
            /\ Visiting(dr[t], i)
                => (~ENABLED SenderInsert(i) /\ ~ENABLED ReceiverInsert(i))
            /\ Deadlocked(dr[t], i)
                => /\ ~ENABLED DrainStep(t)
                   /\ \A g \in 1..MaxGen, k \in CallbackKinds : ~ENABLED Send(i, g, k))
    /\ [][\A t \in Drainers, i \in Ids :
            (Deadlocked(dr[t], i) /\ senders'[i] = senders[i])
                => /\ dr'[t].pc = "loop" /\ dr'[t].cid = i
                   /\ dr'[t].held = dr[t].held /\ dr'[t].count = dr[t].count
                   /\ queue'[i] = queue[i]]_vars

\* process_all_callbacks holds the entry of x and waits on its empty channel;
\* a producer's get-or-create for x waits for the drain.
C18_Witness ==
    /\ Deadlocked(dr["host"], "x")
    /\ registry["x"] = 1
    /\ nextSeq <= MaxEnq
    /\ ~ENABLED SenderInsert("x")

\* The places callback n is at: queued, dequeued and about to be invoked by
\* a drain, invoked.
QueuedAt(n) == { <<i, g, k>> \in Ids \X (1..MaxGen) \X (1..Capacity) :
                    k <= Len(queue[i][g]) /\ queue[i][g][k].seq = n }
InHandOf(n) == { t \in Drainers : dr[t].pc = "got" /\ dr[t].cb.seq = n }
InvokedAt(n) == { <<i, k>> \in Ids \X (1..MaxEnq) :
                    k <= Len(done[i]) /\ done[i][k] = n }

\* C19: every callback enqueued is at exactly one place: queued, in the hand
\* of the drain that dequeued it, or invoked (once); the drain holding a
\* callback can invoke it and does nothing else before; the queues stay in
\* enqueue order.  Checked with two concurrent drains of one channel.
C19_AtMostOnce ==
    /\ [](\A n \in 1..MaxEnq :
            Cardinality(QueuedAt(n)) + Cardinality(InHandOf(n))
                + Cardinality(InvokedAt(n)) = (IF n < nextSeq THEN 1 ELSE 0))
    /\ [](\A t \in Drainers : dr[t].pc = "got" => ENABLED Invoke(t))
    /\ [](\A i \in Ids, g \in 1..MaxGen :
            Increasing([k \in 1..Len(queue[i][g]) |-> queue[i][g][k].seq]))
    /\ [][\A t \in Drainers :
            (dr[t].pc = "got" /\ dr'[t].pc # "got")
                => /\ done'[dr[t].cid] = Append(done[dr[t].cid], dr[t].cb.seq)
                   /\ dr'[t].count = dr[t].count + 1]_vars

\* Two drains of x run concurrently, each about to invoke a callback it
\* dequeued, one of them a timed drain.
C19_Witness ==
    /\ dr["host"].pc = "got"
    /\ dr["aux"].pc = "got"
    /\ dr["host"].cid = "x"
    /\ dr["aux"].cid = "x"
    /\ dr["aux"].op = "one_for"

\* The threads are scheduled fairly: a drain that can take a step takes it.
\* Producers are free never to call.
Fairness == \A t \in Drainers : WF_vars(DrainStep(t))

SpecLive == Init /\ [][Next]_vars /\ Fairness

\* The drain is inside a callback that calls get-or-create for the id of
\* the callback's channel.
InInsertingCallback(d) == d.pc = "incb"

\* C20: a full-registry drain inside such a callback holds the guard of
\* the entry's shard, cannot take a step and stays inside the callback for
\* ever; a single-channel drain inside such a callback holds no guard, can
\* take the step, and goes on to return.
C20_SelfDeadlock ==
    /\ [](\A t \in Drainers :
            (InInsertingCallback(dr[t]) /\ dr[t].op \in {"all", "all_for"})
                => (dr[t].held = shardOf[dr[t].cid] /\ ~ENABLED DrainStep(t)))
    /\ [][\A t \in Drainers :
            (InInsertingCallback(dr[t]) /\ dr[t].op \in {"all", "all_for"})
                => InInsertingCallback(dr'[t])]_vars
    /\ [](\A t \in Drainers :
            (InInsertingCallback(dr[t]) /\ dr[t].op \in {"one", "one_for"})
                => (dr[t].held = 0 /\ ENABLED CallbackInsert(t)))
    /\ \A t \in Drainers :
            (InInsertingCallback(dr[t]) /\ dr[t].op \in {"one", "one_for"})
                ~> Returned(dr[t])

\* process_all_callbacks is inside a callback that calls get-or-create for
\* the entry being visited, and cannot go on.
C20_Witness ==
    /\ dr["host"].op = "all"
    /\ InInsertingCallback(dr["host"])
    /\ dr["host"].held = shardOf[dr["host"].cid]
    /\ ~ENABLED DrainStep("host")

==========================================================================
